---------------------------- MODULE Spec2Model ----------------------------
(***************************************************************************)
(* A model of go-ffi (src/ffi.go): the value marshaller, the Call facade   *)
(* and the closure builder with its trampoline callback.                   *)
(*                                                                         *)
(* Memory is modelled at byte level.  Every integer, float and pointer is  *)
(* a little-endian sequence of bytes of its real width, so truncation and  *)
(* sign extension are what the cgo conversions do.  An unsafe.Pointer that *)
(* designates a slot is a record [addr, mem]: the slot's address and the   *)
(* bytes stored there (p.mem is what dereferencing p reads).               *)
(***************************************************************************)
EXTENDS Naturals, Sequences, FiniteSets, TLC

VARIABLES
    \* ---- the Call facade (Spec)
    pc,         \* position inside Call: "idle", "L153", "L156", "L161", "L163", "defer", "returned", "panicked"
    vret,       \* reflect.Value of the return target
    varg,       \* reflect.Values of the arguments
    rett,       \* Type made for the return target
    retv,       \* return slot
    argt,       \* Types made for the arguments
    argv,       \* argument slots
    deferred,   \* freeArgValues(argv, varg) has been deferred
    heap,       \* C heap: address -> bytes of every live malloc'ed block
    allocs,     \* addresses C.CString returned during the current Call
    frees,      \* <<index, address>> passed to C.free during the current Call
    badFree,    \* C.free was handed an address that is not a live block
    prepared,   \* ffi_prep_cif has run during the current Call
    invoked,    \* ffi_call has run during the current Call
    dispatch,   \* error reported by Interface.Call ("nil" or "errno")
    err,        \* the error value Call returns
    panic,      \* the panic that is unwinding Call ("none" if none)
    \* ---- the closure builder (SpecClosure)
    fns,        \* the *function objects, by identity
    tramps,     \* live trampolines (ffi_closure_alloc'ed), by address
    trampBad,   \* a trampoline was freed that was not live
    op,         \* the last closure operation
    built,      \* what the last operation, a Closure call, did: [arg, result, trace, ret]
    cb,         \* what the last operation, a GoClosureCallback run, did
    \* ---- the marshaller alone (SpecMarshal)
    rt          \* last encode/decode round trip

vars == <<pc, vret, varg, rett, retv, argt, argv, deferred, heap, allocs, frees,
          badFree, prepared, invoked, dispatch, err, panic,
          fns, tramps, trampBad, op, built, cb, rt>>

callVars == <<pc, vret, varg, rett, retv, argt, argv, deferred, heap, allocs, frees,
              badFree, prepared, invoked, dispatch, err, panic>>

closureVars == <<fns, tramps, trampBad, op, built, cb>>

-----------------------------------------------------------------------------
(* Bounds *)

MaxArgs == 2

MaxClosures == 2

-----------------------------------------------------------------------------
(* Bytes, integer conversions *)

Rep(b, n) == [i \in 1..n |-> b]

\* C/Go conversion to a narrower integer type: keep the low n bytes.
Take(s, n) == SubSeq(s, 1, n)

IsNeg(s) == Len(s) > 0 /\ s[Len(s)] >= 128

\* Conversion of a signed integer to an n-byte integer type.
SignExt(s, n) ==
    IF Len(s) >= n THEN Take(s, n)
    ELSE s \o Rep(IF IsNeg(s) THEN 255 ELSE 0, n - Len(s))

\* Conversion of an unsigned integer to an n-byte integer type.
ZeroExt(s, n) ==
    IF Len(s) >= n THEN Take(s, n) ELSE s \o Rep(0, n - Len(s))

\* An address: 8 bytes.
Addr(n) == <<n>> \o Rep(0, 7)

\* unsafe.Pointer(nil)
NULL == Addr(0)

\* The nil unsafe.Pointer as a slot pointer.
NilPtr == [addr |-> NULL, mem |-> <<>>]

-----------------------------------------------------------------------------
(* reflect kinds *)

SignedKinds == {"Int", "Int8", "Int16", "Int32", "Int64"}

UnsignedKinds == {"Uint", "Uint8", "Uint16", "Uint32", "Uint64", "Uintptr"}

FloatKinds == {"Float32", "Float64"}

\* The kinds every switch of the marshaller names (C3's "supported kinds").
SupportedKinds == SignedKinds \cup UnsignedKinds \cup FloatKinds \cup {"String", "UnsafePointer"}

AllKinds == SupportedKinds \cup {"Ptr", "Slice", "Interface", "Bool", "Invalid"}

\* Size in bytes of a Go value of the kind (64-bit platform: size_t is unsigned long).
GoSize(k) ==
    CASE k \in {"Int8", "Uint8", "Bool"} -> 1
      [] k \in {"Int16", "Uint16"} -> 2
      [] k \in {"Int32", "Uint32", "Float32"} -> 4
      [] OTHER -> 8

\* Size in bytes of the C type the marshaller converts the kind to:
\* C.int and C.uint for Int and Uint, C.size_t for Uintptr.
CSize(k) ==
    CASE k \in {"Int8", "Uint8"} -> 1
      [] k \in {"Int16", "Uint16"} -> 2
      [] k \in {"Int", "Uint", "Int32", "Uint32", "Float32"} -> 4
      [] OTHER -> 8

IsValid(v) == v.kind # "Invalid"

\* reflect.ValueOf(nil)
InvalidValue == [kind |-> "Invalid", val |-> <<>>]

\* Value.Int(): the value as int64.
ValueInt(v) == SignExt(v.val, 8)

\* Value.Uint(): the value as uint64.
ValueUint(v) == ZeroExt(v.val, 8)

\* Value.SetInt / SetUint / SetFloat-free stores: the kind's own width.
SetBits(k, x) == Take(x, GoSize(k))

-----------------------------------------------------------------------------
(* float32 <-> float64, on the IEEE-754 bit patterns of a few values *)

F32Zero == <<0, 0, 0, 0>>
F32One == <<0, 0, 128, 63>>
F32Neg == <<0, 0, 32, 192>>
F32Tenth == <<205, 204, 204, 61>>

F64Zero == Rep(0, 8)
F64One == <<0, 0, 0, 0, 0, 0, 240, 63>>
F64Neg == <<0, 0, 0, 0, 0, 0, 4, 192>>
F64Tenth == <<154, 153, 153, 153, 153, 153, 185, 63>>
F64TenthF == <<0, 0, 0, 160, 153, 153, 185, 63>>

\* float64(x) of a float32 (exact).
Widen(x) ==
    CASE x = F32Zero -> F64Zero
      [] x = F32One -> F64One
      [] x = F32Neg -> F64Neg
      [] x = F32Tenth -> F64TenthF

\* float32(x) of a float64 (rounds to nearest).
Narrow(x) ==
    CASE x = F64Zero -> F32Zero
      [] x = F64One -> F32One
      [] x = F64Neg -> F32Neg
      [] x = F64Tenth -> F32Tenth
      [] x = F64TenthF -> F32Tenth

\* Value.Float(): the value as float64.
ValueFloat(v) == IF v.kind = "Float32" THEN Widen(v.val) ELSE v.val

-----------------------------------------------------------------------------
(* C strings *)

\* Memory foreign code owns: one static C string, "ok".
ForeignStr == Addr(32)

ForeignMem == (ForeignStr :> <<111, 107, 0>>)

\* What a C read sees: the malloc'ed blocks and the foreign memory.
CMem(h) == h @@ ForeignMem

MallocAddrs == {Addr(n) : n \in 16..23}

\* malloc: the first free block.
Malloc(h) ==
    CHOOSE a \in MallocAddrs \ DOMAIN h :
        \A b \in MallocAddrs \ DOMAIN h : a[1] <= b[1]

\* C.CString(s): a malloc'ed copy of s followed by a NUL.
CString(h, s) == [x |-> Malloc(h), heap |-> (Malloc(h) :> (s \o <<0>>)) @@ h]

FirstNul(s) ==
    IF \E i \in 1..Len(s) : s[i] = 0
    THEN CHOOSE i \in 1..Len(s) : s[i] = 0 /\ \A j \in 1..(i - 1) : s[j] # 0
    ELSE Len(s) + 1

\* C.GoString(p): the bytes at p up to the first NUL; "" for NULL.
GoString(mem, p) ==
    IF p = NULL THEN <<>> ELSE SubSeq(mem[p], 1, FirstNul(mem[p]) - 1)

-----------------------------------------------------------------------------
(* Results of operations that may panic *)

Ok(x) == [panic |-> "none", val |-> x]

Panic(msg) == [panic |-> msg, val |-> <<>>]

-----------------------------------------------------------------------------
(* The type descriptors *)

Void == [ffi_type |-> "void", name |-> "void"]
Int == [ffi_type |-> "sint32", name |-> "int"]
UInt == [ffi_type |-> "uint32", name |-> "unsigned int"]
ULong == [ffi_type |-> "uint64", name |-> "unsigned long"]
UInt8 == [ffi_type |-> "uint8", name |-> "uint8_t"]
UInt16 == [ffi_type |-> "uint16", name |-> "uint16_t"]
UInt32 == [ffi_type |-> "uint32", name |-> "uint32_t"]
UInt64 == [ffi_type |-> "uint64", name |-> "uint64_t"]
Int8 == [ffi_type |-> "sint8", name |-> "int8_t"]
Int16 == [ffi_type |-> "sint16", name |-> "int16_t"]
Int32 == [ffi_type |-> "sint32", name |-> "int32_t"]
Int64 == [ffi_type |-> "sint64", name |-> "int64_t"]
Float == [ffi_type |-> "float", name |-> "float"]
Double == [ffi_type |-> "double", name |-> "double"]
Pointer == [ffi_type |-> "pointer", name |-> "void *"]

\* The descriptor the switches of makeRetType and makeArgType share for the
\* kinds both name.
TypeOfKind(k) ==
    CASE k = "Int" -> Int
      [] k = "Int8" -> Int8
      [] k = "Int16" -> Int16
      [] k = "Int32" -> Int32
      [] k = "Int64" -> Int64
      [] k = "Uint" -> UInt
      [] k = "Uint8" -> UInt8
      [] k = "Uint16" -> UInt16
      [] k = "Uint32" -> UInt32
      [] k = "Uint64" -> UInt64
      [] k = "Uintptr" -> ULong
      [] k = "Float32" -> Float
      [] k = "Float64" -> Double
      [] k = "String" -> Pointer
      [] k = "UnsafePointer" -> Pointer

-----------------------------------------------------------------------------
(* The value marshaller *)

\* v.Type() panics inside reflect when v is the zero Value.
unsupportedArgType(v) ==
    IF IsValid(v) THEN Panic("ffi: unsupported argument type")
    ELSE Panic("reflect: call of reflect.Value.Type on zero Value")

unsupportedRetType(v) ==
    IF IsValid(v) THEN Panic("ffi: unsupported return type")
    ELSE Panic("reflect: call of reflect.Value.Type on zero Value")

IsNil(v) == v.val = NULL

makeRetType(v) ==
    IF ~IsValid(v) THEN Ok(Void)
    ELSE IF v.elem.kind \in SupportedKinds THEN Ok(TypeOfKind(v.elem.kind))
    ELSE unsupportedRetType(v)

\* at: the address the Go allocator gives the escaping local x.
makeRetValue(v, at) ==
    IF ~IsValid(v) THEN Ok(NilPtr)
    ELSE LET e == v.elem
             k == e.kind
         IN CASE k \in SignedKinds ->
                   Ok([addr |-> at, mem |-> Take(ValueInt(e), CSize(k))])
              [] k \in {"Uint8", "Uint16", "Uint32", "Uint64", "Uintptr"} ->
                   Ok([addr |-> at, mem |-> Take(ValueUint(e), CSize(k))])
              [] k = "Float32" -> Ok([addr |-> at, mem |-> Narrow(ValueFloat(e))])
              [] k = "Float64" -> Ok([addr |-> at, mem |-> ValueFloat(e)])
              [] k \in {"String", "UnsafePointer", "Ptr"} ->
                   Ok([addr |-> at, mem |-> NULL])
              [] OTHER -> unsupportedRetType(e)

\* A descriptor table that also names Bool, which makeArgValue does not.
makeArgTypeWithBool(v) ==
    CASE v.kind \in SupportedKinds -> Ok(TypeOfKind(v.kind))
      [] v.kind \in {"Ptr", "Slice"} -> Ok(Pointer)
      [] v.kind = "Interface" /\ IsNil(v) -> Ok(Pointer)
      [] v.kind = "Bool" -> Ok(UInt8)
      [] OTHER -> unsupportedArgType(v)

makeArgType(v) ==
    CASE v.kind \in SupportedKinds -> Ok(TypeOfKind(v.kind))
      [] v.kind \in {"Ptr", "Slice"} -> Ok(Pointer)
      [] v.kind = "Interface" /\ IsNil(v) -> Ok(Pointer)
      [] OTHER -> unsupportedArgType(v)

\* h: the C heap; at: the address the Go allocator gives the escaping local x.
makeArgValue(h, v, at) ==
    LET k == v.kind
        Slot(x) == Ok([p |-> [addr |-> at, mem |-> x], heap |-> h])
    IN CASE k \in SignedKinds -> Slot(Take(ValueInt(v), CSize(k)))
         [] k \in UnsignedKinds -> Slot(Take(ValueUint(v), CSize(k)))
         [] k = "Float32" -> Slot(Narrow(ValueFloat(v)))
         [] k = "Float64" -> Slot(ValueFloat(v))
         [] k = "String" ->
              Ok([p |-> [addr |-> at, mem |-> CString(h, v.val).x],
                  heap |-> CString(h, v.val).heap])
         [] k \in {"UnsafePointer", "Ptr", "Slice"} -> Slot(v.val)
         [] k = "Interface" /\ IsNil(v) -> Slot(NULL)
         [] OTHER -> unsupportedArgType(v)

\* mem: the C memory; p: the slot; t: the kind of the declared parameter type.
makeGoArg(mem, p, t) ==
    CASE t \in SignedKinds ->
           [kind |-> t, val |-> SignExt(Take(p.mem, CSize(t)), GoSize(t))]
      [] t \in UnsignedKinds ->
           [kind |-> t, val |-> ZeroExt(Take(p.mem, CSize(t)), GoSize(t))]
      [] t \in FloatKinds -> [kind |-> t, val |-> Take(p.mem, CSize(t))]
      [] t = "String" -> [kind |-> t, val |-> GoString(mem, Take(p.mem, 8))]
      [] t = "UnsafePointer" -> [kind |-> t, val |-> p.addr]
      [] OTHER -> InvalidValue

\* The value of the return target after setRetValue(v, p).
setRetValue(mem, v, p) ==
    IF ~IsValid(v) THEN v
    ELSE LET e == v.elem
             k == e.kind
             Set(x) == [v EXCEPT !.elem = [kind |-> k, val |-> x]]
         IN CASE k \in SignedKinds ->
                   Set(SetBits(k, SignExt(Take(p.mem, CSize(k)), 8)))
              [] k \in UnsignedKinds ->
                   Set(SetBits(k, ZeroExt(Take(p.mem, CSize(k)), 8)))
              [] k = "Float32" -> Set(Narrow(Widen(Take(p.mem, 4))))
              [] k = "Float64" -> Set(Take(p.mem, 8))
              [] k = "String" -> Set(GoString(mem, Take(p.mem, 8)))
              [] k = "UnsafePointer" -> Set(Take(p.mem, 8))
              [] OTHER -> v

\* A store of the bytes x at the start of a slot.
Store(m, x) == x \o SubSeq(m, Len(x) + 1, Len(m))

\* The slot and the C heap after setRetPointer(p, v).
setRetPointer(h, p, v) ==
    LET k == v.kind
        Put(x) == [p |-> [p EXCEPT !.mem = Store(p.mem, x)], heap |-> h]
    IN CASE k \in SignedKinds -> Put(Take(ValueInt(v), CSize(k)))
         [] k \in UnsignedKinds -> Put(Take(ValueUint(v), CSize(k)))
         [] k = "Float32" -> Put(Narrow(ValueFloat(v)))
         [] k = "Float64" -> Put(ValueFloat(v))
         [] k = "String" ->
              [p |-> [p EXCEPT !.mem = Store(p.mem, CString(h, v.val).x)],
               heap |-> CString(h, v.val).heap]
         [] k = "UnsafePointer" -> Put(v.val)
         [] OTHER -> [p |-> p, heap |-> h]

-----------------------------------------------------------------------------
(* The call interface *)

\* status: what ffi_prep_cif answers.
Prepare(ret, args, status) ==
    IF status # "OK" THEN Panic(status)
    ELSE Ok([ret |-> ret, args |-> args])

\* errno: what cgo reports for ffi_call; result: the bytes the foreign
\* function returns, which ffi_call stores in the return slot.
InterfaceCall(cif, ret, args, errno, result) ==
    [err |-> errno,
     ret |-> IF cif.ret = Void THEN ret ELSE [ret EXCEPT !.mem = Store(ret.mem, result)]]

-----------------------------------------------------------------------------
(* The Call facade *)

valueOfRet(ret) ==
    IF IsValid(ret) /\ ret.kind # "Ptr"
    THEN Panic("ffi: expected return value to be a pointer")
    ELSE Ok(ret)

valueOfArgs(args) == args

RECURSIVE makeArgTypesFrom(_, _)
makeArgTypesFrom(v, i) ==
    IF i > Len(v) THEN Ok(<<>>)
    ELSE LET t == makeArgType(v[i])
             rest == makeArgTypesFrom(v, i + 1)
         IN IF t.panic # "none" THEN t
            ELSE IF rest.panic # "none" THEN rest
            ELSE Ok(<<t.val>> \o rest.val)

makeArgTypes(v) == makeArgTypesFrom(v, 1)

\* The address of the slot the Go allocator gives argument i.
ArgSlotAddr(i) == Addr(64 + i)

RetSlotAddr == Addr(64)

\* [panic, p, heap]: the slots made, and the C heap, when the loop ends or panics.
RECURSIVE makeArgValuesFrom(_, _, _, _)
makeArgValuesFrom(h, v, i, p) ==
    IF i > Len(v) THEN [panic |-> "none", p |-> p, heap |-> h]
    ELSE LET a == makeArgValue(h, v[i], ArgSlotAddr(i))
         IN IF a.panic # "none" THEN [panic |-> a.panic, p |-> p, heap |-> h]
            ELSE makeArgValuesFrom(a.val.heap, v, i + 1, Append(p, a.val.p))

makeArgValues(h, v) == makeArgValuesFrom(h, v, 1, <<>>)

\* C.free(a)
Free(h, a) ==
    IF a = NULL THEN [heap |-> h, bad |-> FALSE]
    ELSE IF a \in DOMAIN h THEN [heap |-> [b \in DOMAIN h \ {a} |-> h[b]], bad |-> FALSE]
    ELSE [heap |-> h, bad |-> TRUE]

\* [heap, frees, bad] after the loop of freeArgValues from index i on.
RECURSIVE freeArgValuesFrom(_, _, _, _)
freeArgValuesFrom(h, slots, args, i) ==
    IF i > Len(args) THEN [heap |-> h, frees |-> <<>>, bad |-> FALSE]
    ELSE IF args[i].kind = "String"
    THEN LET f == Free(h, Take(slots[i].mem, 8))
             rest == freeArgValuesFrom(f.heap, slots, args, i + 1)
         IN [heap |-> rest.heap,
             frees |-> <<[i |-> i, addr |-> Take(slots[i].mem, 8)]>> \o rest.frees,
             bad |-> f.bad \/ rest.bad]
    ELSE freeArgValuesFrom(h, slots, args, i + 1)

\* C.free(varg[i]) in place of C.free(*(*unsafe.Pointer)(varg[i])).
RECURSIVE freeArgSlotsFrom(_, _, _, _)
freeArgSlotsFrom(h, slots, args, i) ==
    IF i > Len(args) THEN [heap |-> h, frees |-> <<>>, bad |-> FALSE]
    ELSE IF args[i].kind = "String"
    THEN LET f == Free(h, slots[i].addr)
             rest == freeArgSlotsFrom(f.heap, slots, args, i + 1)
         IN [heap |-> rest.heap,
             frees |-> <<[i |-> i, addr |-> slots[i].addr]>> \o rest.frees,
             bad |-> f.bad \/ rest.bad]
    ELSE freeArgSlotsFrom(h, slots, args, i + 1)

freeArgSlots(h, slots, args) == freeArgSlotsFrom(h, slots, args, 1)

\* slots: the source's varg, the argument slots; args: the argument Values.
freeArgValues(h, slots, args) == freeArgValuesFrom(h, slots, args, 1)

-----------------------------------------------------------------------------
(* Inputs of the Call facade *)

\* reflect.Zero of a type of kind k.
ZeroValue(k) ==
    [kind |-> k, val |-> IF k \in {"String", "Invalid"} THEN <<>> ELSE Rep(0, GoSize(k))]

\* What a caller may pass as ret: nil, a non-pointer, a nil *int, or a
\* pointer to a variable of any kind.
RetInputs ==
    {InvalidValue, ZeroValue("Int32"),
     [kind |-> "Ptr", val |-> NULL, elem |-> InvalidValue]}
    \cup {[kind |-> "Ptr", val |-> Addr(8), elem |-> ZeroValue(k)] : k \in AllKinds \ {"Invalid"}}

\* What a caller may pass as an argument (reflect.ValueOf never yields an
\* Interface kind; nil yields the zero Value).
ArgInputs ==
    {[kind |-> "Int", val |-> <<0, 0, 0, 128, 0, 0, 0, 0>>],
     [kind |-> "Uint8", val |-> <<255>>],
     [kind |-> "Float64", val |-> F64Tenth],
     [kind |-> "String", val |-> <<104, 105>>],
     [kind |-> "String", val |-> <<97, 0, 98>>],
     [kind |-> "UnsafePointer", val |-> Addr(1)],
     [kind |-> "Ptr", val |-> Addr(2)],
     [kind |-> "Slice", val |-> Addr(3)],
     [kind |-> "Bool", val |-> <<1>>],
     InvalidValue}

ArgLists == UNION {[1..n -> ArgInputs] : n \in 0..MaxArgs}

\* What the foreign function may return for a return target of kind k.
ForeignResults(k) ==
    CASE k = "String" -> {NULL, ForeignStr}
      [] k = "Float32" -> {F32One, F32Tenth}
      [] k = "Float64" -> {F64One, F64Tenth}
      [] OTHER -> {Rep(255, CSize(k)), <<7>> \o Rep(0, CSize(k) - 1)}

PrepStatus == {"OK", "bad-typedef", "bad-ABI"}

-----------------------------------------------------------------------------
(* Call, line by line *)

\* Lines 150-151: valueOfRet, valueOfArgs.
CallBegin(ret, args) ==
    /\ pc = "idle"
    /\ LET r == valueOfRet(ret)
       IN /\ vret' = IF r.panic = "none" THEN r.val ELSE InvalidValue
          /\ panic' = r.panic
          /\ pc' = IF r.panic = "none" THEN "L153" ELSE "panicked"
    /\ varg' = valueOfArgs(args)
    /\ UNCHANGED <<rett, retv, argt, argv, deferred, heap, allocs, frees, badFree,
                   prepared, invoked, dispatch, err, closureVars, rt>>

\* Lines 153-154: makeRetType, makeRetValue.
CallMakeRet ==
    /\ pc = "L153"
    /\ LET t == makeRetType(vret)
           s == makeRetValue(vret, RetSlotAddr)
       IN IF t.panic # "none"
          THEN panic' = t.panic /\ pc' = "panicked" /\ UNCHANGED <<rett, retv>>
          ELSE IF s.panic # "none"
          THEN panic' = s.panic /\ pc' = "panicked" /\ rett' = t.val /\ UNCHANGED retv
          ELSE rett' = t.val /\ retv' = s.val /\ pc' = "L156" /\ UNCHANGED panic
    /\ UNCHANGED <<vret, varg, argt, argv, deferred, heap, allocs, frees, badFree,
                   prepared, invoked, dispatch, err, closureVars, rt>>

\* Lines 156-159: makeArgTypes, makeArgValues, defer freeArgValues.
CallMakeArgs ==
    /\ pc = "L156"
    /\ LET t == makeArgTypes(varg)
           s == makeArgValues(heap, varg)
       IN IF t.panic # "none"
          THEN /\ panic' = t.panic /\ pc' = "panicked"
               /\ UNCHANGED <<argt, argv, deferred, heap, allocs>>
          ELSE /\ argt' = t.val
               /\ argv' = s.p
               /\ heap' = s.heap
               /\ allocs' = DOMAIN s.heap \ DOMAIN heap
               /\ panic' = s.panic
               /\ deferred' = (s.panic = "none")
               /\ pc' = IF s.panic = "none" THEN "L161" ELSE "panicked"
    /\ UNCHANGED <<vret, varg, rett, retv, frees, badFree,
                   prepared, invoked, dispatch, err, closureVars, rt>>

\* Line 161: Prepare(rett, argt...).Call(fptr, retv, argv...); the error
\* Interface.Call returns is dropped.
CallDispatch(status, errno, result) ==
    /\ pc = "L161"
    /\ LET cif == Prepare(rett, argt, status)
       IN IF cif.panic # "none"
          THEN /\ panic' = cif.panic /\ pc' = "defer"
               /\ prepared' = TRUE
               /\ UNCHANGED <<retv, invoked, dispatch>>
          ELSE LET c == InterfaceCall(cif.val, retv, argv, errno, result)
               IN /\ prepared' = TRUE
                  /\ invoked' = TRUE
                  /\ dispatch' = c.err
                  /\ retv' = c.ret
                  /\ pc' = "L163"
                  /\ UNCHANGED panic
    /\ UNCHANGED <<vret, varg, rett, argt, argv, deferred, heap, allocs, frees,
                   badFree, err, closureVars, rt>>

\* Line 163: setRetValue(vret, retv).
CallSetRet ==
    /\ pc = "L163"
    /\ vret' = setRetValue(CMem(heap), vret, retv)
    /\ pc' = "defer"
    /\ UNCHANGED <<varg, rett, retv, argt, argv, deferred, heap, allocs, frees, badFree,
                   prepared, invoked, dispatch, err, panic, closureVars, rt>>

\* The deferred freeArgValues(argv, varg), on return and on panic alike.
CallDeferred ==
    /\ pc = "defer"
    /\ deferred
    /\ LET f == freeArgValues(heap, argv, varg)
       IN heap' = f.heap /\ frees' = f.frees /\ badFree' = f.bad
    /\ pc' = IF panic = "none" THEN "returned" ELSE "panicked"
    /\ UNCHANGED <<vret, varg, rett, retv, argt, argv, deferred, allocs,
                   prepared, invoked, dispatch, err, panic, closureVars, rt>>

\* The caller goes on (after a return, or after recovering the panic).
CallEnd ==
    /\ pc \in {"returned", "panicked"}
    /\ pc' = "idle"
    /\ vret' = InvalidValue /\ varg' = <<>> /\ rett' = Void /\ retv' = NilPtr
    /\ argt' = <<>> /\ argv' = <<>> /\ deferred' = FALSE
    /\ allocs' = {} /\ frees' = <<>> /\ badFree' = FALSE
    /\ prepared' = FALSE /\ invoked' = FALSE /\ dispatch' = "nil"
    /\ err' = "nil" /\ panic' = "none"
    /\ UNCHANGED <<heap, closureVars, rt>>

-----------------------------------------------------------------------------
(* Initial state *)

NoFn == [call |-> "", state |-> "none", fptr |-> NULL, finalizer |-> FALSE]

NoArg == [kind |-> "none", name |-> "", variadic |-> FALSE, in |-> <<>>, out |-> <<>>, id |-> 0]

NoBuilt == [arg |-> NoArg, result |-> "none", trace |-> <<>>, ret |-> 0]

NoCb == [fn |-> "", args |-> <<>>, av |-> <<>>, panic |-> "none", ret |-> NilPtr]

NoRt == [path |-> "none", vin |-> InvalidValue, slot |-> NilPtr, vout |-> InvalidValue]

CallInit ==
    /\ pc = "idle"
    /\ vret = InvalidValue /\ varg = <<>> /\ rett = Void /\ retv = NilPtr
    /\ argt = <<>> /\ argv = <<>> /\ deferred = FALSE
    /\ heap = <<>> /\ allocs = {} /\ frees = <<>> /\ badFree = FALSE
    /\ prepared = FALSE /\ invoked = FALSE /\ dispatch = "nil"
    /\ err = "nil" /\ panic = "none"

ClosureInit ==
    /\ fns = [i \in 1..MaxClosures |-> NoFn]
    /\ tramps = {}
    /\ trampBad = FALSE
    /\ op = "none"
    /\ built = NoBuilt
    /\ cb = NoCb

MarshalInit == rt = NoRt

Init == CallInit /\ ClosureInit /\ MarshalInit

-----------------------------------------------------------------------------
(* The Call facade as a state machine *)

RetKind == IF IsValid(vret) THEN vret.elem.kind ELSE "Invalid"

Next ==
    \/ pc = "idle" /\ \E ret \in RetInputs, args \in ArgLists : CallBegin(ret, args)
    \/ CallMakeRet
    \/ CallMakeArgs
    \/ pc = "L161" /\ \E status \in PrepStatus, errno \in {"nil", "errno"},
                            result \in ForeignResults(RetKind) :
                             CallDispatch(status, errno, result)
    \/ CallSetRet
    \/ CallDeferred
    \/ CallEnd

Spec == Init /\ [][Next]_vars

-----------------------------------------------------------------------------
(* Claims about the Call facade *)

CallExited == pc \in {"returned", "panicked"}

FreedAddrs == {frees[i].addr : i \in DOMAIN frees}

\* C1: when Call exits, by return or by panic, every C string allocated for a
\* string argument has been freed exactly once: no block is left on the C
\* heap, no free hit an address that was not a live block, no address was
\* freed twice, what was freed is what was allocated, and every free was for
\* the slot of a String argument.
C1_StringBuffersFreedOnce ==
    CallExited =>
        /\ DOMAIN heap = {}
        /\ ~badFree
        /\ \A i, j \in DOMAIN frees : i # j => frees[i].addr # frees[j].addr
        /\ FreedAddrs = allocs
        /\ \A i \in DOMAIN frees : varg[frees[i].i].kind = "String"

\* Two string arguments, Prepare panicked, and both buffers were freed.
C1_Witness ==
    /\ pc = "panicked"
    /\ panic = "bad-typedef"
    /\ Cardinality(allocs) = 2
    /\ Len(frees) = 2

\* C2: Call returns a non-nil error exactly when Interface.Call reported a
\* dispatch failure.
C2_DispatchErrorReturned ==
    pc = "returned" => (err = "nil" <=> dispatch = "nil")

UnsupportedPanics ==
    {"ffi: unsupported argument type", "ffi: unsupported return type",
     "reflect: call of reflect.Value.Type on zero Value"}

\* The kinds a caller of Call can pass that no descriptor exists for.
ArgKindSupported(k) == k \in SupportedKinds \cup {"Ptr", "Slice"}

RetKindSupported(v) == ~IsValid(v) \/ v.elem.kind \in SupportedKinds

\* C4: an unsupported-type failure is raised before any native resource is
\* touched (no C string allocated, Prepare not run, the foreign function not
\* invoked), and whenever a resource has been touched the return target and
\* every argument, at every position, are of supported kinds.
C4_UnsupportedBeforeResources ==
    /\ panic \in UnsupportedPanics =>
           allocs = {} /\ DOMAIN heap = {} /\ ~prepared /\ ~invoked
    /\ (allocs # {} \/ prepared \/ invoked) =>
           /\ RetKindSupported(vret)
           /\ \A i \in DOMAIN varg : ArgKindSupported(varg[i].kind)

\* An unsupported argument after a string argument: the failure is raised
\* and nothing was allocated.
C4_Witness ==
    /\ pc = "panicked"
    /\ panic = "ffi: unsupported argument type"
    /\ Len(varg) = 2
    /\ varg[1].kind = "String"
    /\ varg[2].kind = "Bool"
    /\ allocs = {}

\* C5: a return target of a kind makeRetType has a descriptor for is never
\* rejected as unsupported, and Call reaches the foreign call and returns.
C5_RetKindsAgree ==
    (IsValid(vret) /\ vret.kind = "Ptr" /\ vret.elem.kind \in SupportedKinds) =>
        panic # "ffi: unsupported return type"

-----------------------------------------------------------------------------
(* Inputs of the closure builder *)

Callable(name, variadic, in, out) ==
    [kind |-> "Func", name |-> name, variadic |-> variadic, in |-> in, out |-> out, id |-> 0]

\* The Go functions closures are built from.
Callables ==
    {Callable("add32", FALSE, <<"Int32", "Int32">>, <<"Int32">>),
     Callable("ptrId", FALSE, <<"UnsafePointer">>, <<"UnsafePointer">>),
     Callable("ptrArg", FALSE, <<"Ptr">>, <<>>),
     Callable("boolArg", FALSE, <<"Bool">>, <<>>),
     Callable("printf", TRUE, <<"String", "Slice">>, <<>>)}

FuncOf(name) == CHOOSE f \in Callables : f.name = name

\* A value that is not a function, and the nil interface.
NonFuncs ==
    {[kind |-> "Int32", name |-> "int32(7)", variadic |-> FALSE, in |-> <<>>, out |-> <<>>, id |-> 0],
     [kind |-> "Invalid", name |-> "nil", variadic |-> FALSE, in |-> <<>>, out |-> <<>>, id |-> 0]}

\* A Function some earlier Closure call returned.
FunctionRef(i) ==
    [kind |-> "Function", name |-> "Function", variadic |-> FALSE, in |-> <<>>, out |-> <<>>, id |-> i]

\* The body of f(a, b int32) int32 { return a+b }: Go's wrapping addition,
\* byte by byte with carry.
RECURSIVE AddBytes(_, _, _, _)
AddBytes(a, b, i, carry) ==
    IF i > Len(a) THEN <<>>
    ELSE <<(a[i] + b[i] + carry) % 256>> \o AddBytes(a, b, i + 1, (a[i] + b[i] + carry) \div 256)

\* fv.Call(av): reflect panics on a zero Value argument; otherwise the
\* function's results.
Apply(name, av) ==
    IF \E i \in DOMAIN av : ~IsValid(av[i])
    THEN Panic("reflect: Call using zero Value argument")
    ELSE CASE name = "add32" ->
                Ok(<<[kind |-> "Int32", val |-> AddBytes(av[1].val, av[2].val, 1, 0)]>>)
           [] name = "ptrId" -> Ok(<<av[1]>>)
           [] OTHER -> Ok(<<>>)

Int32Inputs ==
    {<<1, 0, 0, 0>>, <<255, 255, 255, 255>>, <<255, 255, 255, 127>>, <<0, 0, 0, 128>>}

\* What foreign code may store in the slot of a parameter of kind k.
SlotInputs(k) ==
    CASE k = "Int32" -> Int32Inputs
      [] k = "String" -> {NULL, ForeignStr}
      [] OTHER -> {NULL, Addr(1)}

\* The args arrays foreign code may hand the trampoline of a function with
\* parameter kinds in: one slot per parameter, slot i at its own address.
RECURSIVE CbArgsFrom(_, _)
CbArgsFrom(in, i) ==
    IF i > Len(in) THEN {<<>>}
    ELSE {<<[addr |-> Addr(80 + i), mem |-> m]>> \o rest :
             m \in SlotInputs(in[i]), rest \in CbArgsFrom(in, i + 1)}

CbArgs(in) == CbArgsFrom(in, 1)

\* The return slot libffi hands the trampoline.
CbRetSlot == [addr |-> Addr(96), mem |-> Rep(0, 8)]

-----------------------------------------------------------------------------
(* The closure builder *)

TrampAddrs == {Addr(n) : n \in 112..119}

NewTramp(tr) ==
    CHOOSE a \in TrampAddrs \ tr : \A b \in TrampAddrs \ tr : a[1] <= b[1]

\* constructClosure(fn): allocates the trampoline, or reports the failure.
constructClosure(tr, allocOK) ==
    IF allocOK
    THEN [err |-> "nil", fptr |-> NewTramp(tr), tramps |-> tr \cup {NewTramp(tr)}]
    ELSE [err |-> "ffi: closure allocation failed", fptr |-> NULL, tramps |-> tr]

\* destroyClosure(fn): releases fn's trampoline.
destroyClosure(tr, fn) ==
    [tramps |-> tr \ {fn.fptr}, bad |-> fn.fptr \notin tr]

FreeIds(fs) == {i \in DOMAIN fs : fs[i].state = "none"}

NewId(fs) == CHOOSE i \in FreeIds(fs) : \A j \in FreeIds(fs) : i <= j

\* reflect.New(t): a pointer to a zero t.
New(k) == [kind |-> "Ptr", val |-> Addr(8), elem |-> ZeroValue(k)]

\* [result, trace, fns, tramps, ret] of makeClosure(fv, ft) on the objects fs
\* and trampolines tr.
makeClosure(fs, tr, v, status, allocOK) ==
    LET rtype == IF Len(v.out) # 0 THEN makeRetType(New(v.out[1])) ELSE Ok(Void)
        at == makeArgTypes([i \in 1..Len(v.in) |-> ZeroValue(v.in[i])])
        Fail(msg, trace) ==
            [result |-> msg, trace |-> trace, fns |-> fs, tramps |-> tr, ret |-> 0]
    IN IF rtype.panic # "none" THEN Fail(rtype.panic, <<>>)
       ELSE IF at.panic # "none" THEN Fail(at.panic, <<>>)
       ELSE IF Prepare(rtype.val, at.val, status).panic # "none"
       THEN Fail(status, <<"Prepare">>)
       ELSE LET c == constructClosure(tr, allocOK)
            IN IF c.err # "nil" THEN Fail(c.err, <<"Prepare", "constructClosure">>)
               ELSE [result |-> "ok",
                     trace |-> <<"Prepare", "constructClosure", "SetFinalizer">>,
                     fns |-> [fs EXCEPT ![NewId(fs)] =
                                 [call |-> v.name, state |-> "reachable",
                                  fptr |-> c.fptr, finalizer |-> TRUE]],
                     tramps |-> c.tramps,
                     ret |-> NewId(fs)]

\* A Function wrapped again: a second object with the same trampoline and a
\* finalizer of its own.
closureOfFunctionCopy(fs, tr, v) ==
    [result |-> "ok", trace |-> <<"SetFinalizer">>,
     fns |-> [fs EXCEPT ![NewId(fs)] = fs[v.id]],
     tramps |-> tr, ret |-> NewId(fs)]

\* Lines 218-221: a Function is returned as it is.
closureOfFunction(fs, tr, v) ==
    [result |-> "ok", trace |-> <<>>, fns |-> fs, tramps |-> tr, ret |-> v.id]

\* The shape checks without the IsVariadic test.
closureShapeNoVariadic(v) ==
    CASE v.kind = "Invalid" -> "runtime error: invalid memory address or nil pointer dereference"
      [] v.kind # "Func" -> "ffi: closures can only be created from functions"
      [] OTHER -> "none"

\* Lines 223-232: the checks of the callable's shape; reflect.TypeOf(nil) is
\* the nil Type, whose Kind cannot be called.
closureShape(v) ==
    CASE v.kind = "Invalid" -> "runtime error: invalid memory address or nil pointer dereference"
      [] v.kind # "Func" -> "ffi: closures can only be created from functions"
      [] v.variadic -> "ffi: closures with a variable number of arguments are not supported"
      [] OTHER -> "none"

\* [result, trace, fns, tramps, ret] of Closure(v).
ClosureOf(fs, tr, v, status, allocOK) ==
    IF v.kind = "Function" THEN closureOfFunction(fs, tr, v)
    ELSE IF closureShape(v) # "none"
    THEN [result |-> closureShape(v), trace |-> <<>>, fns |-> fs, tramps |-> tr, ret |-> 0]
    ELSE makeClosure(fs, tr, v, status, allocOK)

-----------------------------------------------------------------------------
(* The trampoline callback *)

\* A pointer that does not move.
nextUnsafePointerStuck(p) == p

\* args is a pointer into the array of slot pointers: an index here.
nextUnsafePointer(p) == p + 1

\* The loop of lines 276-279 from parameter i on, args pointing at element p.
RECURSIVE decodeArgs(_, _, _, _, _)
decodeArgs(mem, slots, in, i, p) ==
    IF i > Len(in) THEN <<>>
    ELSE <<makeGoArg(mem, slots[p], in[i])>>
             \o decodeArgs(mem, slots, in, i + 1, nextUnsafePointer(p))

\* [av, panic, ret, heap] after GoClosureCallback(cif, ret, args, data) for
\* data = fn and args = slots.
GoClosureCallback(h, fn, ret, slots) ==
    LET ft == FuncOf(fn.call)
        av == decodeArgs(CMem(h), slots, ft.in, 1, 1)
        rv == Apply(ft.name, av)
    IN IF rv.panic # "none"
       THEN [av |-> av, panic |-> rv.panic, ret |-> ret, heap |-> h]
       ELSE IF Len(rv.val) > 0
       THEN [av |-> av, panic |-> "none",
             ret |-> setRetPointer(h, ret, rv.val[1]).p,
             heap |-> setRetPointer(h, ret, rv.val[1]).heap]
       ELSE [av |-> av, panic |-> "none", ret |-> ret, heap |-> h]

-----------------------------------------------------------------------------
(* The closure builder as a state machine *)

Live(i) == fns[i].state # "none"

Closure(v, status, allocOK) ==
    /\ FreeIds(fns) # {}
    /\ LET r == ClosureOf(fns, tramps, v, status, allocOK)
       IN /\ fns' = r.fns
          /\ tramps' = r.tramps
          /\ built' = [arg |-> v, result |-> r.result, trace |-> r.trace, ret |-> r.ret]
    /\ op' = "Closure"
    /\ cb' = NoCb
    /\ UNCHANGED <<trampBad, callVars, rt>>

\* Foreign code calls the trampoline of closure i.
Invoke(i, slots) ==
    /\ Live(i)
    /\ fns[i].fptr \in tramps
    /\ LET r == GoClosureCallback(heap, fns[i], CbRetSlot, slots)
       IN /\ cb' = [fn |-> fns[i].call, args |-> slots, av |-> r.av,
                    panic |-> r.panic, ret |-> r.ret]
          /\ heap' = r.heap
    /\ op' = "Invoke"
    /\ built' = NoBuilt
    /\ UNCHANGED <<fns, tramps, trampBad, rt,
                   pc, vret, varg, rett, retv, argt, argv, deferred, allocs, frees,
                   badFree, prepared, invoked, dispatch, err, panic>>

\* The program drops its last reference to closure i.
Drop(i) ==
    /\ fns[i].state = "reachable"
    /\ fns' = [fns EXCEPT ![i].state = "unreachable"]
    /\ op' = "Drop"
    /\ built' = NoBuilt /\ cb' = NoCb
    /\ UNCHANGED <<tramps, trampBad, callVars, rt>>

\* The collector runs the finalizer of closure i, if it has one, and frees
\* the object.
Finalize(i) ==
    /\ fns[i].state = "unreachable"
    /\ LET d == destroyClosure(tramps, fns[i])
       IN IF fns[i].finalizer
          THEN tramps' = d.tramps /\ trampBad' = (trampBad \/ d.bad)
          ELSE UNCHANGED <<tramps, trampBad>>
    /\ fns' = [fns EXCEPT ![i] = NoFn]
    /\ op' = "Finalize"
    /\ built' = NoBuilt /\ cb' = NoCb
    /\ UNCHANGED <<callVars, rt>>

ClosureInputs ==
    Callables \cup NonFuncs \cup {FunctionRef(i) : i \in {j \in DOMAIN fns : fns[j].state = "reachable"}}

NextClosure ==
    \/ FreeIds(fns) # {} /\ \E v \in ClosureInputs, status \in PrepStatus, allocOK \in BOOLEAN :
                                Closure(v, status, allocOK)
    \/ \E i \in DOMAIN fns :
           Live(i) /\ \E slots \in CbArgs(FuncOf(fns[i].call).in) : Invoke(i, slots)
    \/ \E i \in DOMAIN fns : Drop(i)
    \/ \E i \in DOMAIN fns : Finalize(i)

SpecClosure == Init /\ [][NextClosure]_vars

-----------------------------------------------------------------------------
(* Claims about the closure builder *)

LiveIds == {i \in DOMAIN fns : Live(i)}

ShapeFailures ==
    {"ffi: closures can only be created from functions",
     "ffi: closures with a variable number of arguments are not supported",
     "runtime error: invalid memory address or nil pointer dereference"}

BadShape(v) == v.kind \notin {"Function", "Func"} \/ (v.kind = "Func" /\ v.variadic)

\* C7: a Closure call on a non-function or on a variadic function panics
\* with the shape failure, returns no closure, and has run neither Prepare
\* nor constructClosure nor SetFinalizer: the function objects and the
\* trampolines are as they were before the call.
C7_ShapeFailureBeforeTrampoline ==
    [][(op' = "Closure" /\ BadShape(built'.arg)) =>
          /\ built'.result \in ShapeFailures
          /\ built'.trace = <<>>
          /\ built'.ret = 0
          /\ fns' = fns
          /\ tramps' = tramps]_vars

\* A variadic function was refused while an earlier closure exists.
C7_Witness ==
    /\ op = "Closure"
    /\ built.arg.kind = "Func"
    /\ built.arg.variadic
    /\ built.result = "ffi: closures with a variable number of arguments are not supported"
    /\ Cardinality(tramps) = 1

\* a + b modulo 2^32 of two little-endian 32-bit integers, on 16-bit halves.
Wrap32Sum(a, b) ==
    LET lo == (a[1] + 256 * a[2]) + (b[1] + 256 * b[2])
        hi == (a[3] + 256 * a[4]) + (b[3] + 256 * b[4]) + (lo \div 65536)
    IN <<(lo % 65536) % 256, (lo % 65536) \div 256,
         (hi % 65536) % 256, (hi % 65536) \div 256>>

\* C8: an invocation of the trampoline of f(a, b int32) int32 { return a+b }
\* decodes the two slots in parameter order and leaves a+b, wrapped to 32
\* bits, in the return slot.
C8_Add32Wraps ==
    (op = "Invoke" /\ cb.fn = "add32") =>
        /\ cb.panic = "none"
        /\ Len(cb.av) = 2
        /\ cb.av[1] = [kind |-> "Int32", val |-> cb.args[1].mem]
        /\ cb.av[2] = [kind |-> "Int32", val |-> cb.args[2].mem]
        /\ Take(cb.ret.mem, 4) = Wrap32Sum(cb.args[1].mem, cb.args[2].mem)

\* MaxInt32 + 1 came back as MinInt32.
C8_Witness ==
    /\ op = "Invoke"
    /\ cb.fn = "add32"
    /\ cb.args[1].mem = <<255, 255, 255, 127>>
    /\ cb.args[2].mem = <<1, 0, 0, 0>>
    /\ Take(cb.ret.mem, 4) = <<0, 0, 0, 128>>

\* C9: an invocation of a closure that was built decodes every argument into
\* a valid value of the parameter's kind and does not fail.
C9_BuiltClosureDecodes ==
    op = "Invoke" =>
        /\ cb.panic = "none"
        /\ \A i \in DOMAIN cb.av :
               IsValid(cb.av[i]) /\ cb.av[i].kind = FuncOf(cb.fn).in[i]

-----------------------------------------------------------------------------
(* The marshaller alone: encode a value, decode the slot *)

IntInputs(n) ==
    {Rep(0, n), <<1>> \o Rep(0, n - 1), Rep(255, n),
     Rep(255, n - 1) \o <<127>>, Rep(0, n - 1) \o <<128>>}

\* Values of each supported kind; for Int and Uint also 2^31 and 2^32.
MarshalInputs(k) ==
    CASE k \in {"Int", "Uint"} ->
           IntInputs(8) \cup {<<0, 0, 0, 128, 0, 0, 0, 0>>, <<0, 0, 0, 0, 1, 0, 0, 0>>}
      [] k \in SignedKinds \cup UnsignedKinds -> IntInputs(GoSize(k))
      [] k = "Float32" -> {F32Zero, F32One, F32Neg, F32Tenth}
      [] k = "Float64" -> {F64Zero, F64One, F64Neg, F64Tenth, F64TenthF}
      [] k = "String" -> {<<>>, <<104, 105>>, <<97, 0, 98>>}
      [] k = "UnsafePointer" -> {NULL, Addr(1), Addr(2)}

\* makeArgValue, then makeGoArg on the slot it made.
ArgRoundTrip(v) ==
    /\ LET a == makeArgValue(<<>>, v, ArgSlotAddr(1)).val
       IN rt' = [path |-> "arg", vin |-> v, slot |-> a.p,
                 vout |-> makeGoArg(CMem(a.heap), a.p, v.kind)]
    /\ UNCHANGED <<callVars, closureVars>>

\* setRetPointer, then setRetValue on the slot it wrote.
RetRoundTrip(v) ==
    /\ LET s == setRetPointer(<<>>, CbRetSlot, v)
       IN rt' = [path |-> "ret", vin |-> v, slot |-> s.p,
                 vout |-> setRetValue(CMem(s.heap), New(v.kind), s.p).elem]
    /\ UNCHANGED <<callVars, closureVars>>

NextMarshal ==
    \E k \in SupportedKinds : \E x \in MarshalInputs(k) :
        \/ ArgRoundTrip([kind |-> k, val |-> x])
        \/ RetRoundTrip([kind |-> k, val |-> x])

SpecMarshal == Init /\ [][NextMarshal]_vars

\* C3: decoding the slot the encoder made gives the value back, for every
\* supported kind and value.
C3_RoundTrip ==
    rt.path # "none" => rt.vout = rt.vin

\* C10: decoding a pointer slot gives the address stored in the slot, with
\* makeGoArg as with setRetValue.
C10_PointerDecodesContents ==
    (rt.path # "none" /\ rt.vin.kind = "UnsafePointer") =>
        rt.vout = [kind |-> "UnsafePointer", val |-> Take(rt.slot.mem, 8)]

=============================================================================
